---- MODULE Spec2Model ----
(***************************************************************************)
(* Writer-stats plugin: the daily aggregator (StatsManager), the streak    *)
(* tracker and the plugin's persistence, as a state machine.               *)
(*                                                                         *)
(* Time is counted in ticks; a calendar day is DAY ticks long.  A date key *)
(* "YYYY-MM-DD" is modelled by its day number, the empty date string ''    *)
(* by NoDate.  new Date(key).getTime() is the UTC midnight of that day,    *)
(* i.e. key * DAY.                                                         *)
(***************************************************************************)
EXTENDS Integers, Sequences, FiniteSets, TLC

-----------------------------------------------------------------------------
(* Bounds of the model *)

\* the last calendar day the clock reaches
MaxDay == 3
\* the largest value of one counter of an analysis result
MaxCount == 1
\* the largest number of change-log entries held in memory
MaxUpdates == 3
\* the largest number of suspended (awaiting) calls
MaxPending == 2
\* the largest character count of the growing document of SpecLog
LogMax == 102
\* the longest text handed to the stripper, in characters
MaxText == 3
\* the longest content of a code span handed to the stripper
MaxSpan == 2
\* the longest text handed to the classifier, in code units
MaxClassify == 2
\* the longest run of letters handed to the classifier
MaxRun == 3
\* the largest number of file events the vault reports
MaxEvents == 3
\* the last instant the clock of the event pipeline reaches, in ms
MaxTime == 1500
\* the last instant the clock of the cache reaches, in ms
MaxCacheTime == 600000
\* the largest number of edits of the cached document
MaxEdits == 2

-----------------------------------------------------------------------------
(* Program constants *)

MAX_CHAR_CHANGES == 100
DEBOUNCE_DELAY == 500
CACHE_TTL == 300000
RETENTION_DAYS == 30

\* one calendar day (1000 * 60 * 60 * 24 ms), in ticks of the clock
DAY == 2

MaxNow == (MaxDay + 1) * DAY - 1

\* the empty date string ''
NoDate == -1

FileNames == {"a.md"}

TrackKeys == {"trackChinese", "trackEnglish", "trackPunctuation",
              "trackNumbers", "trackSpaces"}

AllSettings == [TrackKeys -> BOOLEAN]

DEFAULT_SETTINGS == [k \in TrackKeys |-> k # "trackSpaces"]

CounterKeys == {"chinese", "english", "punctuation", "numbers", "spaces", "words"}

\* every TextAnalysisResult with counters in 0..MaxCount
AllResults == [CounterKeys -> 0..MaxCount]

\* the analysis result fed to the aggregator in Spec: one counted character
\* and one space, which the default settings do not track
AnalysisResults ==
    {[chinese |-> 1, english |-> 0, punctuation |-> 0,
      numbers |-> 0, spaces |-> 1, words |-> 0]}

\* the analysis results of SpecOverwrite
OverwriteResults ==
    {[chinese |-> a, english |-> 0, punctuation |-> 0,
      numbers |-> 0, spaces |-> 1, words |-> 0] : a \in 0..MaxCount}

-----------------------------------------------------------------------------
VARIABLES
    now,             \* the wall clock, in ticks
    pluginFound,     \* app.plugins.plugins['word-count-plugin'] is defined
    settings,        \* WordCountPlugin.settings (shared with StatsManager)
    dailyStats,      \* StatsManager.dailyStats: date key -> DailyStats
    streakData,      \* StatsManager.streakData
    storage,         \* the plugin's data file, as last written
    pending,         \* calls suspended at an await of a write, oldest first
    updatedDays,     \* history: the days on which updateWordCount was called
    callResult,      \* how the most recent update of the plugin ended: the
                     \* StatsManager call "resolved" or "rejected", or the
                     \* content read failed before it ("readFailed")
    written,         \* history of the running process: the days whose record a
                     \* successful update wrote, and the StreakData in effect
                     \* when the last snapshot was written
    strip,           \* the markup stripper's scan: text, index, output
    classify,        \* the classifier's scan: text, index, counters
    debounce,        \* the debounced updateWordCount: clock, timeouts, history
    cache            \* the CacheService and the document it caches

vars == <<now, pluginFound, settings, dailyStats, streakData, storage,
          pending, updatedDays, callResult, written, strip, classify, debounce, cache>>

\* the variables of the aggregator and of the plugin around it
pluginVars == <<now, pluginFound, settings, dailyStats, streakData, storage,
                pending, updatedDays, callResult, written>>

\* the variables of the text analysis
analysisVars == <<strip, classify, debounce, cache>>

-----------------------------------------------------------------------------
(* Helpers *)

\* getTodayString: the UTC calendar date of the clock
GetTodayString(t) == t \div DAY

\* new Date(key).getTime()
DateTime(d) == d * DAY

Max(a, b) == IF a >= b THEN a ELSE b

EmptyStore == [d \in {} |-> 0]

ZeroStreak == [current |-> 0, longest |-> 0, lastDate |-> NoDate]

CreateEmptyStats(date) ==
    [date |-> date, chinese |-> 0, english |-> 0, punctuation |-> 0,
     numbers |-> 0, spaces |-> 0, words |-> 0, total |-> 0, goal |-> 0,
     completed |-> FALSE, charChanges |-> <<>>]

\* a variant of the total that counts spaces whatever the option says
CharCountAllSpaces(s, r) ==
    (IF s["trackChinese"] THEN r.chinese ELSE 0)
  + (IF s["trackEnglish"] THEN r.english ELSE 0)
  + (IF s["trackPunctuation"] THEN r.punctuation ELSE 0)
  + (IF s["trackNumbers"] THEN r.numbers ELSE 0)
  + r.spaces

\* the total of an analysis result under the tracking options
CharCount(s, r) ==
    (IF s["trackChinese"] THEN r.chinese ELSE 0)
  + (IF s["trackEnglish"] THEN r.english ELSE 0)
  + (IF s["trackPunctuation"] THEN r.punctuation ELSE 0)
  + (IF s["trackNumbers"] THEN r.numbers ELSE 0)
  + (IF s["trackSpaces"] THEN r.spaces ELSE 0)

MakeCharChange(ts, fileName, r, total) ==
    [timestamp |-> ts, action |-> "add", fileName |-> fileName,
     chinese |-> r.chinese, english |-> r.english,
     punctuation |-> r.punctuation, numbers |-> r.numbers,
     spaces |-> r.spaces, words |-> r.words, total |-> total]

\* a variant of the cap that keeps the oldest entries
LimitChangesOldest(cs) ==
    IF Len(cs) > MAX_CHAR_CHANGES THEN SubSeq(cs, 1, MAX_CHAR_CHANGES) ELSE cs

\* charChanges.slice(-MAX_CHAR_CHANGES) when the list is longer than the cap
LimitChanges(cs) ==
    IF Len(cs) > MAX_CHAR_CHANGES
    THEN SubSeq(cs, Len(cs) - MAX_CHAR_CHANGES + 1, Len(cs))
    ELSE cs

\* a variant that adds the result to the day's figures
AccumulateStats(st, r, total) ==
    [st EXCEPT !.chinese = @ + r.chinese, !.english = @ + r.english,
               !.punctuation = @ + r.punctuation, !.numbers = @ + r.numbers,
               !.spaces = @ + r.spaces, !.words = @ + r.words,
               !.total = @ + total, !.completed = (st.total + total > 0)]

\* the counters, total and flag written over the day's record
OverwriteStats(st, r, total) ==
    [st EXCEPT !.chinese = r.chinese, !.english = r.english,
               !.punctuation = r.punctuation, !.numbers = r.numbers,
               !.spaces = r.spaces, !.words = r.words,
               !.total = total, !.completed = (total > 0)]

\* the day's record after updateWordCount's in-memory part
UpdatedStats(st, s, ts, fileName, r) ==
    LET total == CharCount(s, r)
        over  == OverwriteStats(st, r, total)
    IN  [over EXCEPT !.charChanges =
            LimitChanges(Append(st.charChanges, MakeCharChange(ts, fileName, r, total)))]

StoreSet(ds, key, st) ==
    [d \in DOMAIN ds \cup {key} |-> IF d = key THEN st ELSE ds[d]]

\* whole days from lastDate to today
DiffDays(lastDate, today) == (DateTime(today) - DateTime(lastDate)) \div DAY

\* variants of the next-day step: the maximum not raised, the date not moved
StreakNextDayNoLongest(sd, today) ==
    [sd EXCEPT !.current = sd.current + 1, !.lastDate = today]

StreakNextDayStaleDate(sd, today) ==
    [sd EXCEPT !.current = sd.current + 1,
               !.longest = Max(sd.longest, sd.current + 1)]

StreakNextDay(sd, today) ==
    [current |-> sd.current + 1,
     longest |-> Max(sd.longest, sd.current + 1),
     lastDate |-> today]

\* a variant of the gap step that forgets the maximum
StreakGapForgets(sd, today) == [current |-> 1, longest |-> 1, lastDate |-> today]

StreakGap(sd, today) == [sd EXCEPT !.current = 1, !.lastDate = today]

\* a variant that counts every call, also on the day already counted
UpdateStreakDataEveryCall(sd, today) ==
    IF sd.lastDate = NoDate
    THEN [current |-> 1, longest |-> 1, lastDate |-> today]
    ELSE IF DiffDays(sd.lastDate, today) <= 1 /\ DiffDays(sd.lastDate, today) >= 0
         THEN StreakNextDay(sd, today)
    ELSE IF DiffDays(sd.lastDate, today) > 1 THEN StreakGap(sd, today)
    ELSE sd

\* a variant that takes an earlier day for a gap and restarts the streak
UpdateStreakDataAnyGap(sd, today) ==
    IF sd.lastDate = NoDate
    THEN [current |-> 1, longest |-> 1, lastDate |-> today]
    ELSE IF DiffDays(sd.lastDate, today) = 1 THEN StreakNextDay(sd, today)
    ELSE IF DiffDays(sd.lastDate, today) # 0 THEN StreakGap(sd, today)
    ELSE sd

UpdateStreakData(sd, today) ==
    IF sd.lastDate = NoDate
    THEN [current |-> 1, longest |-> 1, lastDate |-> today]
    ELSE IF DiffDays(sd.lastDate, today) = 1 THEN StreakNextDay(sd, today)
    ELSE IF DiffDays(sd.lastDate, today) > 1 THEN StreakGap(sd, today)
    ELSE sd

-----------------------------------------------------------------------------
(* Persistence *)

RECURSIVE SortedSeq(_)
\* the elements of a finite set of integers, ascending
SortedSeq(S) ==
    IF S = {} THEN <<>>
    ELSE LET m == CHOOSE x \in S : \A y \in S : x <= y
         IN  <<m>> \o SortedSeq(S \ {m})

\* Array.from(this.dailyStats.values()), as plugin.saveData serialises it
SaveSnapshot(ds) ==
    LET days == SortedSeq(DOMAIN ds)
    IN  [kind |-> "stats", items |-> [i \in 1..Len(days) |-> ds[days[i]]]]

NoData == [kind |-> "none"]

SettingsData(s) == [kind |-> "settings", settings |-> s]

\* JSON values of a stored counter that are no numbers: null, and a
\* non-empty string such as "abc"
JsonNull == -99
NonNumeric == -98

\* the falsy values of a stored counter: 0 and null
FalsyCounter(v) == v \in {0, JsonNull}

\* item.k || 0, item.k || false, item.k || [], item.k || ''
NumField(item, k) ==
    IF k \in DOMAIN item /\ ~FalsyCounter(item[k]) THEN item[k] ELSE 0
BoolField(item, k) == IF k \in DOMAIN item THEN item[k] ELSE FALSE
ListField(item, k) == IF k \in DOMAIN item THEN item[k] ELSE <<>>
DateField(item, k) == IF k \in DOMAIN item THEN item[k] ELSE NoDate

\* loadData's field-level defaulting of one stored item
ValidateItem(item) ==
    [date |-> DateField(item, "date"),
     chinese |-> NumField(item, "chinese"),
     english |-> NumField(item, "english"),
     punctuation |-> NumField(item, "punctuation"),
     numbers |-> NumField(item, "numbers"),
     spaces |-> NumField(item, "spaces"),
     words |-> NumField(item, "words"),
     total |-> NumField(item, "total"),
     goal |-> 0,
     completed |-> BoolField(item, "completed"),
     charChanges |-> ListField(item, "charChanges")]

\* loadData's retention filter: thirtyDaysAgo <= itemDate <= today, where an
\* invalid date ('' ) compares false with everything
InRetention(item, t) ==
    /\ item.date # NoDate
    /\ DateTime(item.date) >= t - RETENTION_DAYS * DAY
    /\ DateTime(item.date) <= t

\* new Map(filteredData.map(item => [item.date, item])): the last item of a
\* date wins
LoadedStore(items, t) ==
    LET valid == [i \in 1..Len(items) |-> ValidateItem(items[i])]
        kept  == {i \in 1..Len(items) : InRetention(valid[i], t)}
        dates == {valid[i].date : i \in kept}
    IN  [d \in dates |->
            valid[CHOOSE i \in kept :
                    /\ valid[i].date = d
                    /\ \A j \in kept : valid[j].date = d => j <= i]]

\* StatsManager.loadData on a manager holding ds
LoadData(ds, found, st, t) ==
    IF found /\ st.kind = "stats" THEN LoadedStore(st.items, t) ELSE ds

\* StatsManager.updateSettings: refresh every record's flag
UpdateSettings(ds) ==
    [d \in DOMAIN ds |-> [ds[d] EXCEPT !.goal = 0, !.completed = (ds[d].total > 0)]]

\* loadSettings: Object.assign({}, DEFAULT_SETTINGS, await this.loadData())
LoadSettings(st) ==
    IF st.kind = "settings" THEN st.settings ELSE DEFAULT_SETTINGS

RECURSIVE SumLen(_, _)
SumLen(ds, S) ==
    IF S = {} THEN 0
    ELSE LET d == CHOOSE x \in S : TRUE
         IN  Len(ds[d].charChanges) + SumLen(ds, S \ {d})

\* change-log entries held in memory
LoggedChanges(ds) == SumLen(ds, DOMAIN ds)

Frame(op, today, data) == [op |-> op, today |-> today, data |-> data]

\* nothing written yet
NothingWritten == [days |-> {}, streak |-> ZeroStreak]

-----------------------------------------------------------------------------
(* The markup stripper: preprocessText as a scan over the characters *)

\* a text is a sequence of characters; positions are counted from 0
At(t, i) == t[i + 1]

\* the backquote character, which a TLA+ string cannot hold
BackQuote == "bq"

\* the markup alphabet; "x" stands for the plain characters
Alphabet ==
    {"x", "\n", " ", "#", ">", "-", "*", "+", "|", "[", "]", "(", ")", "!",
     "<", BackQuote, "$"}

\* positions at or after from that hold a character of C
PositionsOf(t, C, from) == {k \in from..(Len(t) - 1) : At(t, k) \in C}

MinOf(S) == CHOOSE x \in S : \A y \in S : x <= y

MaxOf(S) == CHOOSE x \in S : \A y \in S : x >= y

\* text.indexOf(c, from)
IndexOf(t, c, from) ==
    IF PositionsOf(t, {c}, from) = {} THEN -1 ELSE MinOf(PositionsOf(t, {c}, from))

\* text.substring(a, b), for a <= b
Substring(t, a, b) == SubSeq(t, a + 1, b)

\* text.startsWith(p), text.endsWith(p), text.includes(c)
StartsWith(t, p) == Len(t) >= Len(p) /\ SubSeq(t, 1, Len(p)) = p

EndsWith(t, p) == Len(t) >= Len(p) /\ SubSeq(t, Len(t) - Len(p) + 1, Len(t)) = p

Includes(t, c) == \E k \in 1..Len(t) : t[k] = c

\* text.indexOf('---', from)
IndexOfDashes(t, from) ==
    LET hits == {k \in from..(Len(t) - 3) :
                    Substring(t, k, k + 3) = <<"-", "-", "-">>}
    IN  IF hits = {} THEN -1 ELSE MinOf(hits)

\* the first position from i on whose character is not in C, or the length
SkipWhile(t, C, i) ==
    LET stops == {k \in i..(Len(t) - 1) : At(t, k) \notin C}
    IN  IF stops = {} THEN Len(t) ELSE MinOf(stops)

\* the position is the first of its line
LineStart(t, i) == i = 0 \/ At(t, i - 1) = "\n"

Whitespace == {" ", "\n"}

RECURSIVE CollapseSpaces(_)
\* replace(/[ \t]+/g, ' ')
CollapseSpaces(t) ==
    IF Len(t) <= 1 THEN t
    ELSE IF t[1] = " " /\ t[2] = " " THEN CollapseSpaces(Tail(t))
    ELSE <<t[1]>> \o CollapseSpaces(Tail(t))

RECURSIVE CollapseBlank(_, _)
\* replace(/\n\s*\n/g, '\n\n') from position p on: a line break followed by
\* white space that holds a further line break becomes two line breaks, up
\* to the last line break of that white space
CollapseBlank(t, p) ==
    IF p >= Len(t) THEN <<>>
    ELSE LET q      == SkipWhile(t, Whitespace, p + 1)
             breaks == {k \in (p + 1)..(q - 1) : At(t, k) = "\n"}
         IN  IF At(t, p) = "\n" /\ breaks # {}
             THEN <<"\n", "\n">> \o CollapseBlank(t, MaxOf(breaks) + 1)
             ELSE <<At(t, p)>> \o CollapseBlank(t, p + 1)

\* trim()
Trim(t) ==
    LET inked == {k \in 1..Len(t) : t[k] \notin Whitespace}
    IN  IF inked = {} THEN <<>> ELSE SubSeq(t, MinOf(inked), MaxOf(inked))

\* the post-processing of the scan's result
Normalize(t) == Trim(CollapseBlank(CollapseSpaces(t), 0))

\* the state of preprocessText before its loop, on pass number n over the
\* text t; input is the text handed to the first pass
StripStart(t, n, input) ==
    LET end == IF StartsWith(t, <<"-", "-", "-">>) THEN IndexOfDashes(t, 3) ELSE -1
    IN  [pc |-> IF Len(t) > 0 THEN "body" ELSE "post",
         pass |-> n, input |-> input, text |-> t, i |-> 0, result |-> <<>>,
         inCodeBlock |-> FALSE, inInlineCode |-> FALSE,
         inFrontmatter |-> (end # -1),
         frontmatterEnd |-> (IF end # -1 THEN end + 3 ELSE 0),
         inHtmlTag |-> FALSE, inMathBlock |-> FALSE]

\* the line-level markers and the final copy, for a character outside code,
\* math, tags, links and images
LineMarkers(s) ==
    LET t  == s.text
        i  == s.i
        n  == Len(t)
        c  == At(t, i)
        cb == IndexOf(t, "]", i + 2)
        j  == SkipWhile(t, {"-"}, i)
        e  == IF IndexOf(t, "\n", i) = -1 THEN n ELSE IndexOf(t, "\n", i)
    IN  IF c = "#" /\ LineStart(t, i)
        THEN \* heading: past the run of '#' and the spaces after it, then i--
             [s EXCEPT !.i = SkipWhile(t, {" "}, SkipWhile(t, {"#"}, i)) - 1]
        ELSE IF c = ">" /\ LineStart(t, i)
        THEN \* quote: the loop over spaces starts at the '>' itself, then i--
             [s EXCEPT !.i = SkipWhile(t, {" "}, i) - 1]
        ELSE IF c \in {"-", "*", "+"} /\ LineStart(t, i)
                /\ i + 1 < n /\ At(t, i + 1) = " "
        THEN [s EXCEPT !.i = i + 1]
        ELSE IF /\ c = "[" /\ LineStart(t, i)
                /\ i + 1 < n /\ At(t, i + 1) \in {" ", "x"}
                /\ cb # -1 /\ cb + 1 < n /\ At(t, cb + 1) = " "
        THEN [s EXCEPT !.i = cb + 1]
        ELSE IF /\ c = "-" /\ LineStart(t, i)
                /\ j - i >= 3 /\ (j = n \/ At(t, j) = "\n")
        THEN [s EXCEPT !.i = j]
        ELSE IF c = "|" /\ LineStart(t, i) /\ Includes(Substring(t, i, e), "-")
        THEN [s EXCEPT !.i = e]
        ELSE [s EXCEPT !.result = Append(@, c)]

\* links and images, for a character outside code, math and tags
LinksAndImages(s) ==
    LET t   == s.text
        i   == s.i
        n   == Len(t)
        c   == At(t, i)
        lb  == IndexOf(t, "]", i)
        lp  == IndexOf(t, ")", lb + 2)
        ib  == IndexOf(t, "]", i + 2)
        ip  == IndexOf(t, ")", ib + 2)
    IN  IF /\ c = "[" /\ lb # -1 /\ lb + 1 < n /\ At(t, lb + 1) = "(" /\ lp # -1
        THEN [s EXCEPT !.result = @ \o Substring(t, i + 1, lb), !.i = lp]
        ELSE IF /\ c = "!" /\ i + 1 < n /\ At(t, i + 1) = "["
                /\ ib # -1 /\ ib + 1 < n /\ At(t, ib + 1) = "(" /\ ip # -1
        THEN [s EXCEPT !.result = @ \o Substring(t, i + 2, ib), !.i = ip]
        ELSE LineMarkers(s)

\* tags, for a character outside code and math
HtmlTags(s) ==
    LET t   == s.text
        i   == s.i
        c   == At(t, i)
        ct  == IndexOf(t, ">", i)
        tag == Substring(t, i + 1, ct)
    IN  IF c = "<" /\ ct # -1 /\ StartsWith(tag, <<"!", "-", "-">>)
        THEN [s EXCEPT !.i = ct]
        ELSE IF c = "<" /\ ct # -1 /\ (~Includes(tag, "/") \/ EndsWith(tag, <<"/">>))
        THEN [s EXCEPT !.inHtmlTag = TRUE, !.i = ct]
        ELSE IF s.inHtmlTag
        THEN [s EXCEPT !.inHtmlTag = (c # ">")]
        ELSE LinksAndImages(s)

\* one pass through the body of the loop at position i: the scan state at
\* its continue or at the end of the body, before the loop's i++
LoopBody(s) ==
    LET t == s.text
        i == s.i
        n == Len(t)
        c == At(t, i)
    IN  IF s.inFrontmatter /\ i < s.frontmatterEnd
        THEN IF i = s.frontmatterEnd - 1
             THEN [s EXCEPT !.inFrontmatter = FALSE, !.result = Append(@, "\n")]
             ELSE s
        ELSE IF ~s.inInlineCode /\ c = "$" /\ i + 1 < n /\ At(t, i + 1) = "$"
        THEN [s EXCEPT !.inMathBlock = ~@, !.i = i + 1]
        ELSE IF ~s.inCodeBlock /\ c = "$"
        THEN [s EXCEPT !.inInlineCode = ~@]
        ELSE IF /\ ~s.inInlineCode /\ c = BackQuote /\ i + 2 < n
                /\ At(t, i + 1) = BackQuote /\ At(t, i + 2) = BackQuote
        THEN [s EXCEPT !.inCodeBlock = ~@, !.i = i + 2]
        ELSE IF ~s.inMathBlock /\ c = BackQuote
        THEN [s EXCEPT !.inInlineCode = ~@]
        ELSE IF s.inCodeBlock \/ s.inInlineCode \/ s.inMathBlock
        THEN [s EXCEPT !.result = Append(@, c)]
        ELSE HtmlTags(s)

\* no text is being stripped
StripIdle == [pc |-> "idle"]

-----------------------------------------------------------------------------
(* The character classifier: countCharacters as a scan over the code units *)

\* a text handed to the classifier is a sequence of UTF-16 code units
InRange(c, lo, hi) == lo <= c /\ c <= hi

\* the block ranges the patterns write with \u escapes: 一-鿿,
\* 㐀-䶿, 豈-﫿, ㌀-㏿ and ︰-﹏
LogographicBlocks(c) ==
    \/ InRange(c, 19968, 40959)
    \/ InRange(c, 13312, 19903)
    \/ InRange(c, 63744, 64255)
    \/ InRange(c, 13056, 13311)
    \/ InRange(c, 65072, 65103)

\* the rest of the class, \U00020000-\U0002a6df\U0002a700-... : the patterns
\* carry no u flag, so \U is the letter U, the digits after it are literal
\* characters, and every 0-\U is the range from '0' to 'U'; the literals that
\* lie outside that range are the hexadecimal letters a to f
CapitalUClass(c) == InRange(c, 48, 85) \/ InRange(c, 97, 102)

CHINESE(c) == LogographicBlocks(c) \/ CapitalUClass(c)

ENGLISH(c) == InRange(c, 97, 122) \/ InRange(c, 65, 90)

NUMBERS(c) == InRange(c, 48, 57)

FULL_WIDTH_NUMBERS(c) == InRange(c, 65296, 65305)

\* \w of a pattern without the u flag
WordChar(c) == ENGLISH(c) \/ NUMBERS(c) \/ c = 95

\* \s
WhiteSpace(c) ==
    \/ c \in {9, 10, 11, 12, 13, 32, 160, 5760, 8232, 8233, 8239, 8287, 12288, 65279}
    \/ InRange(c, 8192, 8202)

\* the negated class: none of \w, \s and the members of the CHINESE class
PUNCTUATION(c) == ~(WordChar(c) \/ WhiteSpace(c) \/ LogographicBlocks(c) \/ CapitalUClass(c))

FULL_WIDTH_PUNCTUATION(c) ==
    \/ InRange(c, 65281, 65295)
    \/ InRange(c, 65306, 65312)
    \/ InRange(c, 65339, 65344)
    \/ InRange(c, 65371, 65376)
    \/ InRange(c, 65377, 65381)
    \/ InRange(c, 65504, 65510)

\* I V X L C D M and, the pattern being case-insensitive, i v x l c d m
RomanLetters == {73, 86, 88, 76, 67, 68, 77, 105, 118, 120, 108, 99, 100, 109}

ROMAN_NUMERALS(word) ==
    Len(word) > 0 /\ \A k \in 1..Len(word) : word[k] \in RomanLetters

\* ' ', '\t', '\n' and '\r'
SpaceChars == {32, 9, 10, 13}

\* the options countCharacters reads from the settings
ClassifyKeys == TrackKeys \cup {"showWordCount"}

ClassifyOptions == [ClassifyKeys -> BOOLEAN]

\* the branch of the else-if chain taken for the character c
FirstMatch(c, opts) ==
    IF opts["trackNumbers"] /\ (NUMBERS(c) \/ FULL_WIDTH_NUMBERS(c)) THEN "numbers"
    ELSE IF opts["trackEnglish"] /\ ENGLISH(c) THEN "english"
    ELSE IF opts["trackChinese"] /\ CHINESE(c) THEN "chinese"
    ELSE IF opts["trackPunctuation"] /\ (PUNCTUATION(c) \/ FULL_WIDTH_PUNCTUATION(c))
    THEN "punctuation"
    ELSE IF opts["trackSpaces"] /\ c \in SpaceChars THEN "spaces"
    ELSE "none"

\* a chain of independent ifs instead: every branch whose test succeeds
TakenEveryMatch(c, opts) ==
    {k \in {"numbers", "english", "chinese", "punctuation", "spaces"} :
        \/ k = "numbers" /\ opts["trackNumbers"] /\ (NUMBERS(c) \/ FULL_WIDTH_NUMBERS(c))
        \/ k = "english" /\ opts["trackEnglish"] /\ ENGLISH(c)
        \/ k = "chinese" /\ opts["trackChinese"] /\ CHINESE(c)
        \/ k = "punctuation" /\ opts["trackPunctuation"]
              /\ (PUNCTUATION(c) \/ FULL_WIDTH_PUNCTUATION(c))
        \/ k = "spaces" /\ opts["trackSpaces"] /\ c \in SpaceChars}

\* the branches one iteration takes for the character c: the chain is
\* else-if, so at most one
Taken(c, opts) == {FirstMatch(c, opts)} \ {"none"}

\* the inner while loop: the index after the letters that start at j
RECURSIVE RunEnd(_, _)
RunEnd(text, j) ==
    IF j < Len(text) /\ ENGLISH(At(text, j)) THEN RunEnd(text, j + 1) ELSE j

\* TextAnalyzer: what the run of letters word adds to english and words
AnalyzerRun(word, opts) ==
    IF ~ROMAN_NUMERALS(word) /\ Len(word) > 1
    THEN [english |-> Len(word), words |-> IF opts["showWordCount"] THEN 1 ELSE 0]
    ELSE IF Len(word) = 1 /\ ENGLISH(word[1])
    THEN [english |-> 1, words |-> 0]
    ELSE [english |-> 0, words |-> 0]

\* the countCharacters of WordCountPlugin: one per word that is no numeral
LegacyRun(word, opts) ==
    IF ~ROMAN_NUMERALS(word)
    THEN [english |-> 1, words |-> IF opts["showWordCount"] THEN 1 ELSE 0]
    ELSE [english |-> 0, words |-> 0]

Implementations == {"TextAnalyzer", "WordCountPlugin"}

ZeroCounts == [k \in CounterKeys |-> 0]

\* countCharacters of implementation impl is entered with text
ClassifyStart(impl, text, opts) ==
    [pc |-> IF Len(text) > 0 THEN "loop" ELSE "return",
     impl |-> impl, text |-> text, opts |-> opts, i |-> 0,
     counts |-> ZeroCounts]

\* one iteration of the for loop, with its i++ and its test i < text.length
CountStep(s) ==
    LET c == At(s.text, s.i)
        hit == Taken(c, s.opts)
        start == s.i = 0 \/ ~ENGLISH(At(s.text, s.i - 1))
        isRun == "english" \in hit /\ start
        j == RunEnd(s.text, s.i)
        word == Substring(s.text, s.i, j)
        run == IF ~isRun THEN [english |-> 0, words |-> 0]
               ELSE IF s.impl = "TextAnalyzer" THEN AnalyzerRun(word, s.opts)
               ELSE LegacyRun(word, s.opts)
        last == IF isRun THEN j - 1 ELSE s.i
    IN  [s EXCEPT
            !.counts = [k \in CounterKeys |->
                           @[k] + (IF k \in hit \ {"english"} THEN 1 ELSE 0)
                                + (IF k \in {"english", "words"} THEN run[k] ELSE 0)],
            !.i = last + 1,
            !.pc = IF last + 1 < Len(s.text) THEN "loop" ELSE "return"]

\* no text is being classified
ClassifyIdle == [pc |-> "idle"]

-----------------------------------------------------------------------------
(* The event pipeline: debounce and the handlers onload registers *)

\* the call of clearTimeout left out: every timeout set stays pending
ClearTimeoutForgotten(timers, timeoutId) == timers

\* clearTimeout(timeoutId): the pending timeout set last is cancelled
ClearTimeout(timers, timeoutId) == timers \ {timeoutId}

\* the debounced function is called at time t: clearTimeout, then setTimeout
DebouncedCall(d, t) ==
    [d EXCEPT !.timers = ClearTimeout(@, d.timeoutId) \cup {t + DEBOUNCE_DELAY},
              !.timeoutId = t + DEBOUNCE_DELAY]

\* the extensions of the files the events are about
Extensions == {"md", "txt"}

\* isMarkdownFile
IsMarkdownFile(ext) == ext = "md"

\* initializeServices has created the debounced function; timeoutId is
\* still undefined, and clock is the time in ms
DebounceStart ==
    [clock |-> 0, timers |-> {}, timeoutId |-> NoDate, events |-> <<>>,
     calls |-> <<>>]

\* how far the clock moves in one step, in ms
ClockSteps == {100, 400}

\* the plugin is not loaded: no debounced function exists
DebounceIdle == [clock |-> -1]

-----------------------------------------------------------------------------
(* The CacheService and its use by the plugin's updateWordCount *)

\* the cache key of the active file: file_ followed by its path
CacheKeys == {"file_" \o f : f \in FileNames}

\* the ttl arguments of set: the default CONSTANTS.CACHE_TTL and a shorter one
TtlArgs == {CACHE_TTL, 100000}

\* how far the clock of the cache moves in one step, in ms
CacheSteps == {100000, 200000}

\* the expiry test of get, has and cleanup
Expired(item, t) == t - item.timestamp > CACHE_TTL

\* Map.delete
Remove(items, key) == [k \in DOMAIN items \ {key} |-> items[k]]

\* set(key, value, ttl) at time t: the item keeps the value and the time
SetItem(items, key, value, ttl, t) ==
    [k \in DOMAIN items \cup {key} |->
        IF k = key THEN [value |-> value, timestamp |-> t] ELSE items[k]]

\* what has(key) returns at time t
Has(items, key, t) == key \in DOMAIN items /\ ~Expired(items[key], t)

\* the map after get(key) or has(key) at time t: an expired item is deleted
Looked(items, key, t) ==
    IF key \in DOMAIN items /\ Expired(items[key], t)
    THEN Remove(items, key)
    ELSE items

\* the empty Map
NoItems == [k \in {} |-> 0]

\* a new CacheService, beside a document with content number 0
CacheStart(enabled) ==
    [clock |-> 0, items |-> NoItems, lastSet |-> NoItems,
     answer |-> [op |-> "none"], doc |-> 0, analysed |-> [ran |-> FALSE],
     enableCache |-> enabled]

\* no CacheService exists
CacheIdle == [clock |-> -1]

-----------------------------------------------------------------------------
(* Actions *)

Init ==
    /\ now \in 0..(DAY - 1)
    /\ pluginFound \in BOOLEAN
    /\ settings = DEFAULT_SETTINGS
    /\ dailyStats = EmptyStore
    /\ streakData = ZeroStreak
    /\ storage = NoData
    /\ pending = <<>>
    /\ updatedDays = {}
    /\ callResult = "none"
    /\ written = NothingWritten
    /\ strip = StripIdle
    /\ classify = ClassifyIdle
    /\ debounce = DebounceIdle
    /\ cache = CacheIdle

\* the wall clock reaches the same time of the next day
Tick ==
    /\ now + DAY <= MaxNow
    /\ now' = now + DAY
    /\ UNCHANGED <<pluginFound, settings, dailyStats, streakData, storage,
                   pending, updatedDays, callResult, written>>
    /\ UNCHANGED analysisVars

\* the system clock is set back to the same time of the day before
ClockBack ==
    /\ now - DAY >= 0
    /\ now' = now - DAY
    /\ UNCHANGED <<pluginFound, settings, dailyStats, streakData, storage,
                   pending, updatedDays, callResult, written>>
    /\ UNCHANGED analysisVars

\* StatsManager.updateWordCount up to its await of saveData; without the
\* plugin instance saveData writes nothing and the call runs to its end
UpdateWordCount(fileName, r) ==
    LET today    == GetTodayString(now)
        existing == IF today \in DOMAIN dailyStats
                    THEN dailyStats[today] ELSE CreateEmptyStats(today)
        stats    == UpdatedStats(existing, settings, now, fileName, r)
        store    == StoreSet(dailyStats, today, stats)
    IN  /\ dailyStats' = store
        /\ updatedDays' = updatedDays \cup {today}
        /\ IF pluginFound
           THEN /\ pending' = Append(pending, Frame("update", today, SaveSnapshot(store)))
                /\ streakData' = streakData
                /\ callResult' = callResult
           ELSE /\ pending' = pending
                /\ streakData' = UpdateStreakData(streakData, today)
                /\ callResult' = "resolved"
        /\ UNCHANGED <<now, pluginFound, settings, storage, written>>
        /\ UNCHANGED analysisVars

\* the write of an update completes: the streak tracker runs
UpdateSaveOk ==
    /\ pending # <<>>
    /\ Head(pending).op = "update"
    /\ storage' = Head(pending).data
    /\ streakData' = UpdateStreakData(streakData, Head(pending).today)
    /\ pending' = Tail(pending)
    /\ callResult' = "resolved"
    /\ written' = [days |-> written.days \cup {Head(pending).today},
                   streak |-> streakData]
    /\ UNCHANGED <<now, pluginFound, settings, dailyStats, updatedDays>>
    /\ UNCHANGED analysisVars

\* the write of an update fails: the error is rethrown before the tracker
UpdateSaveFail ==
    /\ pending # <<>>
    /\ Head(pending).op = "update"
    /\ pending' = Tail(pending)
    /\ callResult' = "rejected"
    /\ UNCHANGED <<now, pluginFound, settings, dailyStats, streakData,
                   storage, updatedDays, written>>
    /\ UNCHANGED analysisVars

\* a variant of resetData that leaves the streak for after the write
ResetDataStoreOnly ==
    /\ dailyStats' = EmptyStore
    /\ updatedDays' = {}
    /\ written' = [written EXCEPT !.days = {}]
    /\ pending' = IF pluginFound
                  THEN Append(pending, Frame("reset", NoDate, SaveSnapshot(EmptyStore)))
                  ELSE pending
    /\ UNCHANGED <<now, pluginFound, settings, storage, streakData, callResult>>
    /\ UNCHANGED analysisVars

\* StatsManager.resetData up to its await of saveData
ResetData ==
    /\ dailyStats' = EmptyStore
    /\ streakData' = ZeroStreak
    /\ updatedDays' = {}
    /\ written' = [written EXCEPT !.days = {}]
    /\ pending' = IF pluginFound
                  THEN Append(pending, Frame("reset", NoDate, SaveSnapshot(EmptyStore)))
                  ELSE pending
    /\ UNCHANGED <<now, pluginFound, settings, storage, callResult>>
    /\ UNCHANGED analysisVars

ResetSaveOk ==
    /\ pending # <<>>
    /\ Head(pending).op = "reset"
    /\ storage' = Head(pending).data
    /\ pending' = Tail(pending)
    /\ written' = [written EXCEPT !.streak = streakData]
    /\ UNCHANGED <<now, pluginFound, settings, dailyStats, streakData,
                   updatedDays, callResult>>
    /\ UNCHANGED analysisVars

ResetSaveFail ==
    /\ pending # <<>>
    /\ Head(pending).op = "reset"
    /\ pending' = Tail(pending)
    /\ UNCHANGED <<now, pluginFound, settings, dailyStats, streakData,
                   storage, updatedDays, callResult, written>>
    /\ UNCHANGED analysisVars

\* a tracking toggle of the settings tab: the option is flipped, then
\* saveSettings awaits the write of the settings
SaveSettings(key) ==
    /\ settings' = [settings EXCEPT ![key] = ~settings[key]]
    /\ pending' = Append(pending, Frame("settings", NoDate, SettingsData(settings')))
    /\ UNCHANGED <<now, pluginFound, dailyStats, streakData, storage,
                   updatedDays, callResult, written>>
    /\ UNCHANGED analysisVars

\* the write of the settings completes: StatsManager.updateSettings runs
SettingsSaveOk ==
    /\ pending # <<>>
    /\ Head(pending).op = "settings"
    /\ storage' = Head(pending).data
    /\ dailyStats' = UpdateSettings(dailyStats)
    /\ pending' = Tail(pending)
    /\ UNCHANGED <<now, pluginFound, settings, streakData, updatedDays,
                   callResult, written>>
    /\ UNCHANGED analysisVars

SettingsSaveFail ==
    /\ pending # <<>>
    /\ Head(pending).op = "settings"
    /\ pending' = Tail(pending)
    /\ UNCHANGED <<now, pluginFound, settings, dailyStats, streakData,
                   storage, updatedDays, callResult, written>>
    /\ UNCHANGED analysisVars

\* the process restarts: onload builds a fresh StatsManager and loads
Onload ==
    /\ settings' = LoadSettings(storage)
    /\ dailyStats' = LoadData(EmptyStore, pluginFound, storage, now)
    /\ streakData' = ZeroStreak
    /\ pending' = <<>>
    /\ callResult' = "none"
    /\ written' = NothingWritten
    /\ UNCHANGED <<now, pluginFound, storage, updatedDays>>
    /\ UNCHANGED analysisVars

\* the zero counters of an empty text
EmptyResult == [k \in CounterKeys |-> 0]

\* a variant of the failed read that goes on to record an empty document
ReadFailRecordsEmpty ==
    LET today    == GetTodayString(now)
        existing == IF today \in DOMAIN dailyStats
                    THEN dailyStats[today] ELSE CreateEmptyStats(today)
    IN  /\ callResult' = "readFailed"
        /\ dailyStats' = StoreSet(dailyStats, today,
                             UpdatedStats(existing, settings, now, "a.md", EmptyResult))
        /\ UNCHANGED <<now, pluginFound, settings, streakData, storage,
                       pending, updatedDays, written>>
        /\ UNCHANGED analysisVars

\* the plugin's updateWordCount when app.vault.read rejects: the catch block
\* shows a notice; the analyzer and the StatsManager are never reached
ReadFail ==
    /\ callResult' = "readFailed"
    /\ UNCHANGED <<now, pluginFound, settings, dailyStats, streakData, storage,
                   pending, updatedDays, written>>
    /\ UNCHANGED analysisVars

\* the body of the stripper's loop runs for the character at position i
StripBody ==
    /\ strip.pc = "body"
    /\ strip' = [LoopBody(strip) EXCEPT !.pc = "incr"]
    /\ UNCHANGED <<pluginVars, classify, debounce, cache>>

\* the loop's i++ and its test i < text.length
StripIncr ==
    /\ strip.pc = "incr"
    /\ strip' = [strip EXCEPT
                    !.i = @ + 1,
                    !.pc = IF strip.i + 1 < Len(strip.text) THEN "body" ELSE "post"]
    /\ UNCHANGED <<pluginVars, classify, debounce, cache>>

\* the post-processing after the loop: the stripper returns
StripPost ==
    /\ strip.pc = "post"
    /\ strip' = [strip EXCEPT !.result = Normalize(@), !.pc = "done"]
    /\ UNCHANGED <<pluginVars, classify, debounce, cache>>

\* the stripper is applied to its own output
StripAgain ==
    /\ strip.pc = "done"
    /\ strip.pass = 1
    /\ strip' = StripStart(strip.result, 2, strip.input)
    /\ UNCHANGED <<pluginVars, classify, debounce, cache>>

\* countCharacters runs one iteration of its loop
ClassifyStep ==
    /\ classify.pc = "loop"
    /\ classify' = CountStep(classify)
    /\ UNCHANGED <<pluginVars, strip, debounce, cache>>

\* countCharacters returns its six counters
ClassifyReturn ==
    /\ classify.pc = "return"
    /\ classify' = [classify EXCEPT !.pc = "done"]
    /\ UNCHANGED <<pluginVars, strip, debounce, cache>>

\* the vault reports a modify or create event for a file: either handler
\* calls the debounced updateWordCount if the file is a Markdown file.  A
\* timeout that is due runs first.
FileEvent(kind, ext) ==
    /\ kind \in {"modify", "create"}
    /\ Len(debounce.events) < MaxEvents
    /\ debounce.clock \notin debounce.timers
    /\ debounce' =
          [(IF IsMarkdownFile(ext)
            THEN DebouncedCall(debounce, debounce.clock)
            ELSE debounce)
           EXCEPT !.events = Append(@, [ext |-> ext, at |-> debounce.clock])]
    /\ UNCHANGED <<pluginVars, strip, classify, cache>>

\* time passes, up to the next pending timeout at most
ClockAdvance(d) ==
    /\ debounce.clock + d <= MaxTime
    /\ \A t \in debounce.timers : debounce.clock + d <= t
    /\ debounce' = [debounce EXCEPT !.clock = @ + d]
    /\ UNCHANGED <<pluginVars, strip, classify, cache>>

\* a pending timeout is due: its callback invokes updateWordCount
TimeoutFires ==
    /\ debounce.clock \in debounce.timers
    /\ debounce' = [debounce EXCEPT !.timers = @ \ {debounce.clock},
                                    !.calls = Append(@, debounce.clock)]
    /\ UNCHANGED <<pluginVars, strip, classify, cache>>

\* cacheService.set(key, value, ttl) is called
CacheSet(key, value, ttl) ==
    /\ cache.clock >= 0
    /\ cache' = [cache EXCEPT
                    !.items = SetItem(@, key, value, ttl, cache.clock),
                    !.lastSet = [k \in DOMAIN @ \cup {key} |->
                                    IF k = key
                                    THEN [at |-> cache.clock, ttl |-> ttl]
                                    ELSE @[k]]]
    /\ UNCHANGED <<pluginVars, strip, classify, debounce>>

\* cacheService.get(key) is called
CacheGet(key) ==
    /\ cache.clock >= 0
    /\ cache' = [cache EXCEPT
                    !.items = Looked(@, key, cache.clock),
                    !.answer = [op |-> "get", key |-> key, at |-> cache.clock,
                                hit |-> Has(cache.items, key, cache.clock)]]
    /\ UNCHANGED <<pluginVars, strip, classify, debounce>>

\* cacheService.has(key) is called
CacheHas(key) ==
    /\ cache.clock >= 0
    /\ cache' = [cache EXCEPT
                    !.items = Looked(@, key, cache.clock),
                    !.answer = [op |-> "has", key |-> key, at |-> cache.clock,
                                hit |-> Has(cache.items, key, cache.clock)]]
    /\ UNCHANGED <<pluginVars, strip, classify, debounce>>

\* cacheService.clear() is called
CacheClear ==
    /\ cache.clock >= 0
    /\ cache' = [cache EXCEPT !.items = NoItems]
    /\ UNCHANGED <<pluginVars, strip, classify, debounce>>

\* time passes
CacheTick(d) ==
    /\ cache.clock >= 0
    /\ cache.clock + d <= MaxCacheTime
    /\ cache' = [cache EXCEPT !.clock = @ + d]
    /\ UNCHANGED <<pluginVars, strip, classify, debounce>>

\* the user edits the active document: its content changes
ModifyDocument ==
    /\ cache.clock >= 0
    /\ cache.doc < MaxEdits
    /\ cache' = [cache EXCEPT !.doc = @ + 1]
    /\ UNCHANGED <<pluginVars, strip, classify, debounce>>

\* updateWordCount chooses the content it analyses: the cached content if
\* caching is enabled and the key is cached, else the content read from the
\* vault, which it caches if caching is enabled
ReadContent(key) ==
    /\ cache.clock >= 0
    /\ LET hit == cache.enableCache /\ Has(cache.items, key, cache.clock)
           looked == IF cache.enableCache
                     THEN Looked(cache.items, key, cache.clock)
                     ELSE cache.items
           content == IF hit THEN cache.items[key].value ELSE cache.doc
       IN  cache' = [cache EXCEPT
                        !.items = IF ~hit /\ cache.enableCache
                                  THEN SetItem(looked, key, content, CACHE_TTL,
                                               cache.clock)
                                  ELSE looked,
                        !.analysed = [ran |-> TRUE, content |-> content,
                                      current |-> cache.doc, fromCache |-> hit]]
    /\ UNCHANGED <<pluginVars, strip, classify, debounce>>

\* the tracking options toggled in SpecOverwrite
ToggleKeys == {"trackSpaces"}

\* a further call may start: the bounds on suspended calls and logged changes
MayCall == Len(pending) < MaxPending

MayUpdate == MayCall /\ LoggedChanges(dailyStats) < MaxUpdates

Next ==
    \/ Tick
    \/ \E f \in FileNames, r \in AnalysisResults : MayUpdate /\ UpdateWordCount(f, r)
    \/ UpdateSaveOk
    \/ UpdateSaveFail
    \/ MayCall /\ ResetData
    \/ ResetSaveOk
    \/ ResetSaveFail
    \/ Onload

Spec == Init /\ [][Next]_vars

\* updates and restarts only, with no reset-all
NextUpdates ==
    \/ Tick
    \/ \E f \in FileNames, r \in AnalysisResults : MayUpdate /\ UpdateWordCount(f, r)
    \/ UpdateSaveOk
    \/ UpdateSaveFail
    \/ Onload

SpecUpdates == Init /\ [][NextUpdates]_vars

\* one day of updates with differing results, under changing settings
NextOverwrite ==
    \/ \E f \in FileNames, r \in OverwriteResults : MayUpdate /\ UpdateWordCount(f, r)
    \/ UpdateSaveOk
    \/ UpdateSaveFail
    \/ \E k \in ToggleKeys : MayCall /\ SaveSettings(k)
    \/ SettingsSaveOk
    \/ SettingsSaveFail

SpecOverwrite == Init /\ [][NextOverwrite]_vars

\* the first update of a day, for every tracking configuration and result
InitTotal ==
    /\ now = 0
    /\ pluginFound \in BOOLEAN
    /\ settings \in AllSettings
    /\ dailyStats = EmptyStore
    /\ streakData = ZeroStreak
    /\ storage = NoData
    /\ pending = <<>>
    /\ updatedDays = {}
    /\ callResult = "none"
    /\ written = NothingWritten
    /\ strip = StripIdle
    /\ classify = ClassifyIdle
    /\ debounce = DebounceIdle
    /\ cache = CacheIdle

NextTotal ==
    \/ \E f \in FileNames, r \in AllResults :
          MayCall /\ dailyStats = EmptyStore /\ UpdateWordCount(f, r)
    \/ UpdateSaveOk
    \/ UpdateSaveFail

SpecTotal == InitTotal /\ [][NextTotal]_vars

\* the analysis result of a document of n counted characters
GrownDocument(n) ==
    [chinese |-> n, english |-> 0, punctuation |-> 0,
     numbers |-> 0, spaces |-> 0, words |-> 0]

\* the character count of the day's record
TodayChinese ==
    IF GetTodayString(now) \in DOMAIN dailyStats
    THEN dailyStats[GetTodayString(now)].chinese ELSE 0

\* one day on which the document grows by one character per update
NextLog ==
    \/ \E f \in FileNames :
          MayCall /\ TodayChinese < LogMax
                  /\ UpdateWordCount(f, GrownDocument(TodayChinese + 1))
    \/ UpdateSaveOk
    \/ UpdateSaveFail
    \/ Onload

SpecLog == Init /\ [][NextLog]_vars

\* an item without the fields K
WithoutFields(item, K) == [k \in DOMAIN item \ K |-> item[k]]

\* day records as a data file may hold them: written by this version, by the
\* goal-based version (completed = total >= goal), or with a field missing
WholeItems ==
    {[CreateEmptyStats(d) EXCEPT !.chinese = t, !.total = t, !.completed = c] :
        d \in 0..1, t \in 0..MaxCount, c \in BOOLEAN}

StoredItems ==
    {WithoutFields(it, K) :
        it \in WholeItems,
        K \in {{}, {"completed"}, {"total"}, {"charChanges"}, {"date"}}}

\* a process started on a data file that holds one stored day record
InitLoad ==
    /\ now \in 0..(2 * DAY - 1)
    /\ pluginFound = TRUE
    /\ settings = DEFAULT_SETTINGS
    /\ dailyStats = EmptyStore
    /\ streakData = ZeroStreak
    /\ storage \in {[kind |-> "stats", items |-> <<it>>] : it \in StoredItems}
    /\ pending = <<>>
    /\ updatedDays = {}
    /\ callResult = "none"
    /\ written = NothingWritten
    /\ strip = StripIdle
    /\ classify = ClassifyIdle
    /\ debounce = DebounceIdle
    /\ cache = CacheIdle

NextLoad ==
    \/ Onload
    \/ \E f \in FileNames, r \in AnalysisResults : MayUpdate /\ UpdateWordCount(f, r)
    \/ UpdateSaveOk
    \/ UpdateSaveFail
    \/ \E k \in ToggleKeys : MayCall /\ SaveSettings(k)
    \/ SettingsSaveOk
    \/ SettingsSaveFail
    \/ MayCall /\ ResetData
    \/ ResetSaveOk
    \/ ResetSaveFail

SpecLoad == InitLoad /\ [][NextLoad]_vars

\* updates, some of which fail to read the document, and restarts
NextRead ==
    \/ Tick
    \/ \E f \in FileNames, r \in AnalysisResults : MayUpdate /\ UpdateWordCount(f, r)
    \/ UpdateSaveOk
    \/ UpdateSaveFail
    \/ ReadFail
    \/ Onload

SpecRead == Init /\ [][NextRead]_vars

\* updates, settings saves and restarts, with no reset-all
NextPersist ==
    \/ Tick
    \/ \E f \in FileNames, r \in AnalysisResults : MayUpdate /\ UpdateWordCount(f, r)
    \/ UpdateSaveOk
    \/ UpdateSaveFail
    \/ \E k \in ToggleKeys : MayCall /\ SaveSettings(k)
    \/ SettingsSaveOk
    \/ SettingsSaveFail
    \/ Onload

SpecPersist == Init /\ [][NextPersist]_vars

\* the values a counter of a stored item may hold
StoredCounters == {-1, 0, MaxCount, JsonNull, NonNumeric}

\* today's record as a damaged or hand-edited data file may hold it
MalformedItems ==
    {WithoutFields([CreateEmptyStats(0) EXCEPT !.chinese = c, !.total = t], K) :
        c \in StoredCounters, t \in StoredCounters, K \in {{}, {"completed"}}}

\* a process started on a data file that holds one malformed day record
InitMalformed ==
    /\ now \in 0..(DAY - 1)
    /\ pluginFound = TRUE
    /\ settings = DEFAULT_SETTINGS
    /\ dailyStats = EmptyStore
    /\ streakData = ZeroStreak
    /\ storage \in {[kind |-> "stats", items |-> <<it>>] : it \in MalformedItems}
    /\ pending = <<>>
    /\ updatedDays = {}
    /\ callResult = "none"
    /\ written = NothingWritten
    /\ strip = StripIdle
    /\ classify = ClassifyIdle
    /\ debounce = DebounceIdle
    /\ cache = CacheIdle

NextMalformed ==
    \/ Onload
    \/ \E f \in FileNames, r \in AnalysisResults : MayUpdate /\ UpdateWordCount(f, r)
    \/ UpdateSaveOk
    \/ UpdateSaveFail

SpecMalformed == InitMalformed /\ [][NextMalformed]_vars

\* the dates of stored records around both ends of the retention window
RetentionDates ==
    {0, 1, 2, RETENTION_DAYS, RETENTION_DAYS + 1, RETENTION_DAYS + 2}

\* a written day record of date d
StoredDay(d) ==
    [CreateEmptyStats(d) EXCEPT !.chinese = 1, !.total = 1, !.completed = TRUE]

\* a process started, at some time of day RETENTION_DAYS or one more days
\* after day 0, on a data file that holds two day records
InitRetention ==
    /\ now \in (RETENTION_DAYS * DAY)..((RETENTION_DAYS + 2) * DAY - 1)
    /\ pluginFound = TRUE
    /\ settings = DEFAULT_SETTINGS
    /\ dailyStats = EmptyStore
    /\ streakData = ZeroStreak
    /\ storage \in {[kind |-> "stats", items |-> <<StoredDay(d), StoredDay(e)>>] :
                        d \in RetentionDates, e \in RetentionDates}
    /\ pending = <<>>
    /\ updatedDays = {}
    /\ callResult = "none"
    /\ written = NothingWritten
    /\ strip = StripIdle
    /\ classify = ClassifyIdle
    /\ debounce = DebounceIdle
    /\ cache = CacheIdle

NextRetention ==
    \/ Onload
    \/ \E f \in FileNames, r \in AnalysisResults : MayUpdate /\ UpdateWordCount(f, r)
    \/ UpdateSaveOk
    \/ UpdateSaveFail

SpecRetention == InitRetention /\ [][NextRetention]_vars

\* every text of at most MaxText characters of the markup alphabet
ShortTexts == UNION {[1..n -> Alphabet] : n \in 0..MaxText}

\* the characters inside a code span, and the contents made of them
SpanChars == {"x", "$", "<", "[", "#", "-", BackQuote}

SpanContents == UNION {[1..n -> SpanChars] : n \in 1..MaxSpan}

\* the three-character fence marker
Fence == <<BackQuote, BackQuote, BackQuote>>

\* a fenced region: the content does not end in a backquote, so that the
\* closing fence is the last three characters
FencedTexts ==
    {Fence \o c \o Fence : c \in {x \in SpanContents : x[Len(x)] # BackQuote}}

\* an inline code span: the content holds no backquote
InlineTexts ==
    {<<BackQuote>> \o c \o <<BackQuote>> :
        c \in {x \in SpanContents : ~Includes(x, BackQuote)}}

\* plain content around tags
PlainTexts == {<<"x">>, <<"x", "x">>}

\* an opening tag such as <x>, and its closing tag </x>
OpenTag == <<"<", "x", ">">>

CloseTag == <<"<", "/", "x", ">">>

\* content wrapped in a tag pair and followed by text; text after a lone
\* opening tag
TagTexts ==
    {OpenTag \o X \o CloseTag \o Y : X \in PlainTexts, Y \in PlainTexts}
    \cup {OpenTag \o Y : Y \in PlainTexts}

\* preprocessText is called with a text
InitStrip ==
    /\ now = 0
    /\ pluginFound = TRUE
    /\ settings = DEFAULT_SETTINGS
    /\ dailyStats = EmptyStore
    /\ streakData = ZeroStreak
    /\ storage = NoData
    /\ pending = <<>>
    /\ updatedDays = {}
    /\ callResult = "none"
    /\ written = NothingWritten
    /\ strip \in {StripStart(t, 1, t) :
                     t \in ShortTexts \cup FencedTexts \cup InlineTexts \cup TagTexts}
    /\ classify = ClassifyIdle
    /\ debounce = DebounceIdle
    /\ cache = CacheIdle

NextStrip ==
    \/ StripBody
    \/ StripIncr
    \/ StripPost
    \/ StripAgain

SpecStrip == InitStrip /\ [][NextStrip]_vars

\* the stripper is sequential code: its next step is always taken
SpecStripFair == SpecStrip /\ WF_vars(NextStrip)

\* the characters of the classified texts: 5, full-width 5, a, z, I, colon,
\* comma, full-width comma, the ideograph U+4E2D, space and underscore
ClassChars == {53, 65301, 97, 122, 73, 58, 44, 65292, 20013, 32, 95}

\* further characters classified alone: ; < = > ? @ ! * and V, tab, newline
SingleChars == {59, 60, 61, 62, 63, 64, 33, 42, 86, 9, 10}

\* the letters of the classified runs: a, b, c and I
RunLetters == {97, 98, 99, 73}

ClassifiedTexts ==
    UNION {[1..n -> ClassChars] : n \in 0..MaxClassify}
    \cup {<<c>> : c \in SingleChars}
    \cup UNION {[1..n -> RunLetters] : n \in 1..MaxRun}

\* countCharacters is called with a text, under some settings
InitClassify ==
    /\ now = 0
    /\ pluginFound = TRUE
    /\ settings = DEFAULT_SETTINGS
    /\ dailyStats = EmptyStore
    /\ streakData = ZeroStreak
    /\ storage = NoData
    /\ pending = <<>>
    /\ updatedDays = {}
    /\ callResult = "none"
    /\ written = NothingWritten
    /\ strip = StripIdle
    /\ classify \in {ClassifyStart(m, t, o) :
                        m \in Implementations, t \in ClassifiedTexts,
                        o \in ClassifyOptions}
    /\ debounce = DebounceIdle
    /\ cache = CacheIdle

NextClassify ==
    \/ ClassifyStep
    \/ ClassifyReturn

SpecClassify == InitClassify /\ [][NextClassify]_vars

\* the plugin is loaded and the vault reports events
InitDebounce ==
    /\ now = 0
    /\ pluginFound = TRUE
    /\ settings = DEFAULT_SETTINGS
    /\ dailyStats = EmptyStore
    /\ streakData = ZeroStreak
    /\ storage = NoData
    /\ pending = <<>>
    /\ updatedDays = {}
    /\ callResult = "none"
    /\ written = NothingWritten
    /\ strip = StripIdle
    /\ classify = ClassifyIdle
    /\ debounce = DebounceStart
    /\ cache = CacheIdle

NextDebounce ==
    \/ \E kind \in {"modify", "create"}, ext \in Extensions : FileEvent(kind, ext)
    \/ \E d \in ClockSteps : ClockAdvance(d)
    \/ TimeoutFires

SpecDebounce == InitDebounce /\ [][NextDebounce]_vars

\* a CacheService is created and its methods are called
InitCacheService ==
    /\ now = 0
    /\ pluginFound = TRUE
    /\ settings = DEFAULT_SETTINGS
    /\ dailyStats = EmptyStore
    /\ streakData = ZeroStreak
    /\ storage = NoData
    /\ pending = <<>>
    /\ updatedDays = {}
    /\ callResult = "none"
    /\ written = NothingWritten
    /\ strip = StripIdle
    /\ classify = ClassifyIdle
    /\ debounce = DebounceIdle
    /\ cache = CacheStart(TRUE)

NextCacheService ==
    \/ \E key \in CacheKeys, value \in 0..MaxEdits, ttl \in TtlArgs :
          CacheSet(key, value, ttl)
    \/ \E key \in CacheKeys : CacheGet(key)
    \/ \E key \in CacheKeys : CacheHas(key)
    \/ CacheClear
    \/ \E d \in CacheSteps : CacheTick(d)

SpecCacheService == InitCacheService /\ [][NextCacheService]_vars

\* the plugin is loaded, with caching enabled or not, and the document is
\* edited and analysed
InitCache ==
    /\ now = 0
    /\ pluginFound = TRUE
    /\ settings = DEFAULT_SETTINGS
    /\ dailyStats = EmptyStore
    /\ streakData = ZeroStreak
    /\ storage = NoData
    /\ pending = <<>>
    /\ updatedDays = {}
    /\ callResult = "none"
    /\ written = NothingWritten
    /\ strip = StripIdle
    /\ classify = ClassifyIdle
    /\ debounce = DebounceIdle
    /\ cache \in {CacheStart(e) : e \in BOOLEAN}

NextCache ==
    \/ ModifyDocument
    \/ \E key \in CacheKeys : ReadContent(key)
    \/ \E d \in CacheSteps : CacheTick(d)

SpecCache == InitCache /\ [][NextCache]_vars

\* updates and reset-all, their writes succeeding, under a clock that may
\* also be set back
NextClock ==
    \/ Tick
    \/ ClockBack
    \/ \E f \in FileNames, r \in AnalysisResults : MayUpdate /\ UpdateWordCount(f, r)
    \/ UpdateSaveOk
    \/ MayCall /\ ResetData
    \/ ResetSaveOk

SpecClock == Init /\ [][NextClock]_vars

\* updates and reset-all whose writes succeed
NextReset ==
    \/ Tick
    \/ \E f \in FileNames, r \in AnalysisResults : MayUpdate /\ UpdateWordCount(f, r)
    \/ UpdateSaveOk
    \/ MayCall /\ ResetData
    \/ ResetSaveOk

SpecReset == Init /\ [][NextReset]_vars

-----------------------------------------------------------------------------
(* Properties *)

Days == 0..(MaxDay + 1)

\* the counters of a record or of a change-log entry
Counters(x) == [k \in CounterKeys |-> x[k]]

\* the step runs the streak tracker for the date key today
TrackerRuns(today) ==
    \/ UpdateSaveOk /\ Head(pending).today = today
    \/ /\ ~pluginFound
       /\ GetTodayString(now) = today
       /\ \E f \in FileNames, r \in AnalysisResults : UpdateWordCount(f, r)

\* C1: a second update on the same day leaves the day's six counters equal
\* to the second result and its total equal to the total of the second
\* result alone, never the sum of both calls.
C1_OverwriteSemantics ==
    [][\A f \in FileNames, r \in OverwriteResults :
         (UpdateWordCount(f, r) /\ GetTodayString(now) \in DOMAIN dailyStats)
         => LET st == dailyStats'[GetTodayString(now)]
            IN  /\ Counters(st) = r
                /\ st.total = CharCount(settings, r)]_vars

\* two updates of one day with different results, the second one non-empty
C1_Witness ==
    \E d \in DOMAIN dailyStats :
        LET cs == dailyStats[d].charChanges
        IN  /\ Len(cs) >= 2
            /\ Counters(cs[Len(cs)]) # Counters(cs[Len(cs) - 1])
            /\ cs[Len(cs) - 1].total > 0
            /\ cs[Len(cs)].total > 0
            /\ Counters(dailyStats[d]) = Counters(cs[Len(cs)])
            /\ dailyStats[d].total = cs[Len(cs)].total

\* C2: the streak never exceeds the longest streak, and it is 0 only in the
\* uninitialised or reset state, where lastDate is ''.
C2_StreakInvariant ==
    /\ streakData.current <= streakData.longest
    /\ streakData.current = 0 => streakData.lastDate = NoDate

\* an active tracker whose streak was broken after a longer one
C2_Witness ==
    /\ streakData.lastDate # NoDate
    /\ streakData.current < streakData.longest

RECURSIVE RunEndingAt(_, _)
\* the number of consecutive days of S that end at day d
RunEndingAt(S, d) == IF d \in S THEN 1 + RunEndingAt(S, d - 1) ELSE 0

\* C3: whenever no call is suspended and the tracker is active, the streak is
\* the number of consecutive calendar days, ending at lastDate, on each of
\* which an update occurred (stated for the runs in which the plugin
\* instance is found, so that every update is written).
C3_StreakCountsUpdatedDays ==
    (pluginFound /\ pending = <<>> /\ streakData.lastDate # NoDate)
    => streakData.current = RunEndingAt(updatedDays, streakData.lastDate)

\* C4: on the calendar day after lastDate the tracker adds one to the
\* streak, raises the longest streak to it if needed and moves lastDate.
C4_NextDayAdvance ==
    [][\A today \in Days :
         (/\ TrackerRuns(today)
          /\ streakData.lastDate # NoDate
          /\ today = streakData.lastDate + 1)
         => /\ streakData'.current = streakData.current + 1
            /\ streakData'.longest =
                 (IF streakData.current + 1 > streakData.longest
                  THEN streakData.current + 1 ELSE streakData.longest)
            /\ streakData'.lastDate = today]_vars

\* a streak of two consecutive days
C4_Witness ==
    /\ streakData.current = 2
    /\ streakData.longest = 2
    /\ streakData.lastDate - 1 \in updatedDays

\* C5: more than one calendar day after lastDate the tracker restarts the
\* streak at 1, moves lastDate and keeps the longest streak.
C5_GapRestart ==
    [][\A today \in Days :
         (/\ TrackerRuns(today)
          /\ streakData.lastDate # NoDate
          /\ today > streakData.lastDate + 1)
         => /\ streakData'.current = 1
            /\ streakData'.longest = streakData.longest
            /\ streakData'.lastDate = today]_vars

\* a streak of two days, then a day without update, then an update
C5_Witness ==
    /\ streakData = [current |-> 1, longest |-> 2, lastDate |-> 3]
    /\ updatedDays = {0, 1, 3}

\* C6: on the day already counted the tracker changes nothing.
C6_SameDayIdempotent ==
    [][\A today \in Days :
         (TrackerRuns(today) /\ today = streakData.lastDate)
         => streakData' = streakData]_vars

\* two updates of one day have both been written and the streak is still 1
C6_Witness ==
    /\ streakData.current = 1
    /\ streakData.lastDate \in DOMAIN dailyStats
    /\ storage.kind = "stats"
    /\ \E i \in 1..Len(storage.items) :
          /\ storage.items[i].date = streakData.lastDate
          /\ Len(storage.items[i].charChanges) >= 2

\* the character counters and the option that enables each
TrackOf ==
    [chinese |-> "trackChinese", english |-> "trackEnglish",
     punctuation |-> "trackPunctuation", numbers |-> "trackNumbers",
     spaces |-> "trackSpaces"]

RECURSIVE SumOf(_, _)
\* the sum of the counters K of r
SumOf(r, K) ==
    IF K = {} THEN 0
    ELSE LET k == CHOOSE x \in K : TRUE IN r[k] + SumOf(r, K \ {k})

EnabledCounters(s) == {k \in DOMAIN TrackOf : s[TrackOf[k]]}

\* C7: a day's change log never holds more than 100 entries, and once more
\* than 100 updates were logged it holds exactly the 100 most recent ones,
\* oldest first (the n-th update of the growing document carries count n).
C7_ChangeLogBound ==
    \A d \in DOMAIN dailyStats :
        LET cs == dailyStats[d].charChanges
            n  == dailyStats[d].chinese
        IN  /\ Len(cs) <= MAX_CHAR_CHANGES
            /\ Len(cs) = (IF n > MAX_CHAR_CHANGES THEN MAX_CHAR_CHANGES ELSE n)
            /\ \A i \in 1..Len(cs) : cs[i].chinese = n - Len(cs) + i

\* more than 100 updates were logged on one day
C7_Witness ==
    \E d \in DOMAIN dailyStats :
        /\ dailyStats[d].chinese > MAX_CHAR_CHANGES + 1
        /\ Len(dailyStats[d].charChanges) = MAX_CHAR_CHANGES
        /\ dailyStats[d].charChanges[1].chinese = dailyStats[d].chinese - 99

\* C8: the stored total is the sum of exactly the character counters whose
\* tracking option is enabled at the call; a disabled counter and the word
\* counter contribute nothing.  (The result r of the call is read back from
\* the change-log entry the call appends.)
C8_TotalOfEnabled ==
    [][\A f \in FileNames :
         LET today == GetTodayString(now)
             cs    == dailyStats'[today].charChanges
             r     == Counters(cs[Len(cs)])
         IN  (/\ today \in DOMAIN dailyStats'
              /\ cs # <<>>
              /\ UpdateWordCount(f, r))
             => /\ dailyStats'[today].total = SumOf(r, EnabledCounters(settings))
                /\ cs[Len(cs)].total = SumOf(r, EnabledCounters(settings))]_vars

\* a stored total that leaves out a non-zero disabled counter and the words
C8_Witness ==
    \E d \in DOMAIN dailyStats :
        /\ dailyStats[d].total > 0
        /\ dailyStats[d].words > 0
        /\ \E k \in DOMAIN TrackOf : ~settings[TrackOf[k]] /\ dailyStats[d][k] > 0
        /\ dailyStats[d].total < SumOf(dailyStats[d], DOMAIN TrackOf)

\* C9: every day record of the store has completed = (total > 0).
C9_CompletedIffTotal ==
    \A d \in DOMAIN dailyStats :
        dailyStats[d].completed = (dailyStats[d].total > 0)

\* C10: resetData empties the store and zeroes the streak in one step, and
\* the end of its write, successful or not, changes neither.
C10_ResetAtomic ==
    [][/\ ResetData => (dailyStats' = EmptyStore /\ streakData' = ZeroStreak)
       /\ (ResetSaveOk \/ ResetSaveFail)
            => (dailyStats' = dailyStats /\ streakData' = streakData)]_vars

\* a reset of recorded data whose write failed: both are cleared in memory
\* while the data file still holds the old records
C10_Witness ==
    /\ dailyStats = EmptyStore
    /\ streakData = ZeroStreak
    /\ pending = <<>>
    /\ storage.kind = "stats"
    /\ Len(storage.items) > 0

\* C11: an updateWordCount whose snapshot is not written, because the write
\* fails or because it cannot be performed, ends rejected; the call has by
\* then put the new counters, total, flag and change-log entry in today's
\* record, and the failure takes nothing back.
C11_FailureReported ==
    [][\A f \in FileNames, r \in AnalysisResults :
         LET today == GetTodayString(now)
         IN  /\ UpdateWordCount(f, r)
                  => LET st == dailyStats'[today]
                         cs == st.charChanges
                     IN  /\ Counters(st) = r
                         /\ st.total = CharCount(settings, r)
                         /\ st.completed = (st.total > 0)
                         /\ cs # <<>>
                         /\ Counters(cs[Len(cs)]) = r
                         /\ cs[Len(cs)].timestamp = now
             /\ UpdateSaveFail
                  => (callResult' = "rejected" /\ dailyStats' = dailyStats)
             /\ (~pluginFound /\ UpdateWordCount(f, r))
                  => callResult' = "rejected"]_vars

\* C12: a failed read of the document leaves the day-record store, every
\* change log and the StreakData as they were, and nothing is written.
C12_ReadFailureNoMutation ==
    [][ReadFail => /\ dailyStats' = dailyStats
                   /\ streakData' = streakData
                   /\ storage' = storage
                   /\ pending' = pending]_vars

\* a read failed after a day's record and the streak had been set
C12_Witness ==
    /\ callResult = "readFailed"
    /\ GetTodayString(now) \in DOMAIN dailyStats
    /\ dailyStats[GetTodayString(now)].charChanges # <<>>
    /\ streakData.lastDate # NoDate

\* the date d lies in the retention window that ends on the day of time t
InsideWindow(d, t) ==
    GetTodayString(t) - RETENTION_DAYS <= d /\ d <= GetTodayString(t)

\* C13: after a restart the store holds the record of every day that a
\* successful update wrote and that is inside the retention window,
\* whatever updates and settings saves came in between (no reset-all).
C13_RecordSurvivesRestart ==
    [][Onload => \A d \in written.days :
                    InsideWindow(d, now) => d \in DOMAIN dailyStats']_vars

\* C14: a written snapshot carries the StreakData, and after a restart the
\* tracker holds the current, longest and lastDate that were in effect when
\* the last snapshot of the process before was written.
C14_StreakRoundTrip ==
    [][/\ (UpdateSaveOk \/ ResetSaveOk)
            => /\ "streakData" \in DOMAIN storage'
               /\ storage'.streakData = streakData
       /\ Onload => streakData' = written.streak]_vars

\* a non-negative number
IsCount(v) == v \notin {JsonNull, NonNumeric} /\ v >= 0

\* C15: after loadData every counter of every loaded record (the six
\* counters and the total) is a non-negative number, whatever the stored
\* item held, and a record whose stored item had no completed field has
\* completed = false.
C15_LoadDefaults ==
    [][(Onload /\ pluginFound /\ storage.kind = "stats")
         => /\ \A d \in DOMAIN dailyStats' :
                  \A k \in CounterKeys \cup {"total"} : IsCount(dailyStats'[d][k])
            /\ \A i \in 1..Len(storage.items) :
                  LET it == storage.items[i]
                  IN  (/\ "completed" \notin DOMAIN it
                       /\ DateField(it, "date") \in DOMAIN dailyStats'
                       /\ \A j \in 1..Len(storage.items) :
                             DateField(storage.items[j], "date") = DateField(it, "date")
                             => j <= i)
                      => dailyStats'[DateField(it, "date")].completed = FALSE]_vars

\* the dates of the items of a stored snapshot
StoredDates(st) == {DateField(st.items[i], "date") : i \in 1..Len(st.items)}

\* C16: after loadData the store holds exactly the stored day records whose
\* date lies in the retention window that ends today: none that is older,
\* and every one from the day RETENTION_DAYS days ago up to today.
C16_RetentionWindow ==
    [][(Onload /\ pluginFound /\ storage.kind = "stats")
         => DOMAIN dailyStats' =
              {d \in StoredDates(storage) : InsideWindow(d, now)}]_vars

\* offsets of the local time from UTC, in ticks: half a day behind, none,
\* half a day ahead
ZoneOffsets == {-(DAY \div 2), 0, DAY \div 2}

\* the calendar date of time t on a clock z ticks ahead of UTC
LocalDate(t, z) == (t + z) \div DAY

\* C17: whatever the clock time and the timezone offset, updateWordCount
\* stores the record under the local calendar date of the moment of update.
C17_LocalDateKey ==
    [][\A f \in FileNames, r \in AnalysisResults, z \in ZoneOffsets :
         UpdateWordCount(f, r)
         => LET key == LocalDate(now, z)
            IN  /\ key \in DOMAIN dailyStats'
                /\ dailyStats'[key].date = key
                /\ dailyStats'[key].charChanges # <<>>
                /\ LET cs == dailyStats'[key].charChanges
                   IN  cs[Len(cs)].timestamp = now]_vars

\* C18: the scan of the stripper terminates on every text: from each pass
\* through the loop body the scan reaches the end of the loop.
C18_ScanTerminates == (strip.pc = "body") ~> (strip.pc = "post")

\* C19: stripping is idempotent: the stripper applied to its own output
\* returns that output.
C19_StripIdempotent ==
    (strip.pc = "done" /\ strip.pass = 2) => strip.result = strip.text

\* C20: the content of a fenced region and of an inline code span is copied
\* unchanged and in order: for a text that is one such span, the output is
\* the content, up to the final whitespace normalisation.
C20_SpansVerbatim ==
    (strip.pc = "done" /\ strip.pass = 1)
    => \A c \in SpanContents :
          (\/ strip.input = Fence \o c \o Fence /\ c[Len(c)] # BackQuote
           \/ strip.input = <<BackQuote>> \o c \o <<BackQuote>> /\ ~Includes(c, BackQuote))
          => strip.result = Normalize(c)

\* C21: for a text <t>X</t>Y with plain X and Y the output is X followed by
\* Y, and for a text <t>Y the output is Y: the tags go, the content stays.
C21_TagContentPreserved ==
    (strip.pc = "done" /\ strip.pass = 1)
    => /\ \A X \in PlainTexts, Y \in PlainTexts :
             strip.input = OpenTag \o X \o CloseTag \o Y
             => strip.result = X \o Y
       /\ \A Y \in PlainTexts :
             strip.input = OpenTag \o Y => strip.result = Y

\* the five character counters of a result
CharKeys == CounterKeys \ {"words"}

CharSum(counts) ==
    counts["chinese"] + counts["english"] + counts["punctuation"]
        + counts["numbers"] + counts["spaces"]

\* C22: during and after countCharacters no counter is negative and the five
\* character counters sum to at most the number of positions scanned, hence
\* to at most the length of the text; one iteration raises at most one of
\* them, by at most the number of positions it consumes.
C22_ClassificationTotals ==
    /\ [](classify.pc # "idle"
            => /\ \A k \in CounterKeys : classify.counts[k] >= 0
               /\ CharSum(classify.counts) <= classify.i
               /\ classify.i <= Len(classify.text))
    /\ [][ClassifyStep
            => \E k \in CharKeys :
                  /\ \A m \in CharKeys \ {k} :
                        classify'.counts[m] = classify.counts[m]
                  /\ classify'.counts[k] >= classify.counts[k]
                  /\ classify'.counts[k] - classify.counts[k]
                        <= classify'.i - classify.i]_vars

\* a text of two characters was classified into two different counters
C22_Witness ==
    /\ classify.pc = "done"
    /\ Len(classify.text) = 2
    /\ classify.counts["numbers"] = 1
    /\ classify.counts["chinese"] = 1

\* the text classified is one run of letters, counted with alphabetic
\* tracking and word counting enabled
LetterRunCounted ==
    /\ classify.pc = "done"
    /\ classify.opts["trackEnglish"] /\ classify.opts["showWordCount"]
    /\ Len(classify.text) >= 1
    /\ \A k \in 1..Len(classify.text) : ENGLISH(classify.text[k])

\* C23: a run of n letters adds (english, words) = (1, 0) if n = 1, (0, 0)
\* if n > 1 and all its letters are among I V X L C D M in either case, and
\* (n, 1) otherwise, in both implementations of countCharacters.
C23_AlphabeticRun ==
    LetterRunCounted
    => LET n == Len(classify.text)
           added == <<classify.counts["english"], classify.counts["words"]>>
       IN  IF n = 1 THEN added = <<1, 0>>
           ELSE IF ROMAN_NUMERALS(classify.text) THEN added = <<0, 0>>
           ELSE added = <<n, 1>>

\* TextAnalyzer.countCharacters has classified the single character c
ClassifiedAlone(c) ==
    /\ classify.pc = "done"
    /\ classify.impl = "TextAnalyzer"
    /\ classify.text = <<c>>

\* C24: with every tracking option enabled, a character raises the chinese
\* counter only if it lies in one of the logographic block ranges, and every
\* ASCII character that is neither a word character nor whitespace, such as
\* : ; < = > ? @ , ! and *, raises the punctuation counter.
C24_CategoryMapping ==
    \A c \in ClassChars \cup SingleChars :
        (ClassifiedAlone(c) /\ \A k \in TrackKeys : classify.opts[k])
        => /\ classify.counts["chinese"] = 1 => LogographicBlocks(c)
           /\ (c < 128 /\ ~WordChar(c) /\ ~WhiteSpace(c))
                 => classify.counts["punctuation"] = 1

\* the category a character belongs to, by the tests the classifier is
\* meant to make: digits, letters, logographs, punctuation, whitespace
OwnCategory(c) ==
    IF NUMBERS(c) \/ FULL_WIDTH_NUMBERS(c) THEN "trackNumbers"
    ELSE IF ENGLISH(c) THEN "trackEnglish"
    ELSE IF LogographicBlocks(c) THEN "trackChinese"
    ELSE IF c \in SpaceChars THEN "trackSpaces"
    ELSE IF FULL_WIDTH_PUNCTUATION(c)
            \/ ~(WordChar(c) \/ WhiteSpace(c) \/ LogographicBlocks(c))
    THEN "trackPunctuation"
    ELSE "none"

\* C29: when the option of a character's own category is disabled,
\* classifying the character raises no counter, whatever the other options.
C29_DisabledUncounted ==
    \A c \in ClassChars \cup SingleChars :
        (/\ ClassifiedAlone(c)
         /\ OwnCategory(c) \in TrackKeys
         /\ ~classify.opts[OwnCategory(c)])
        => classify.counts = ZeroCounts

\* the times of the events that reached the debounced function, in order
MarkdownEvents ==
    LET md == SelectSeq(debounce.events, LAMBDA e : IsMarkdownFile(e.ext))
    IN  [k \in 1..Len(md) |-> md[k].at]

\* the k-th event is the last of its burst: no event follows it within the
\* delay
BurstEnd(E, k) == k = Len(E) \/ E[k + 1] - E[k] >= DEBOUNCE_DELAY

C26_AnalysesCurrentContent ==
    (cache.clock >= 0 /\ cache.analysed.ran)
    => cache.analysed.content = cache.analysed.current

\* C27: get(key) returns a value and has(key) returns true only if the last
\* set(key, value, ttl) happened at most ttl ms before the call.
C27_StalenessBounded ==
    (cache.clock >= 0 /\ cache.answer.op \in {"get", "has"} /\ cache.answer.hit)
    => LET k == cache.answer.key
       IN  /\ k \in DOMAIN cache.lastSet
           /\ cache.answer.at - cache.lastSet[k].at <= cache.lastSet[k].ttl

\* C28: when the tracker is active and the day of a completing update
\* precedes lastDate, the tracker's step changes nothing; lastDate never
\* moves to an earlier day, it only becomes '' through reset-all.
C28_OutOfOrderNoOp ==
    [][/\ (/\ UpdateSaveOk
           /\ streakData.lastDate # NoDate
           /\ Head(pending).today < streakData.lastDate)
          => streakData' = streakData
       /\ (streakData.lastDate # NoDate /\ streakData'.lastDate # NoDate)
          => streakData'.lastDate >= streakData.lastDate
       /\ (streakData.lastDate # NoDate /\ streakData'.lastDate = NoDate)
          => dailyStats' = EmptyStore]_vars

\* two updates, one per day, were both written, and the later write, of
\* the earlier day, found the tracker at the later day and left it there
C28_Witness ==
    /\ pending = <<>>
    /\ DOMAIN dailyStats = {0, 1}
    /\ LoggedChanges(dailyStats) = 2
    /\ written.days = {0, 1}
    /\ written.streak = [current |-> 1, longest |-> 1, lastDate |-> 1]
    /\ streakData = written.streak

\* resetData ran while an update was suspended at its write, both have
\* completed, and no update was called since the reset
ResetOvertookUpdate ==
    /\ pending = <<>>
    /\ updatedDays = {}
    /\ written.days # {}

\* C30: after a reset-all that ran while an earlier update was suspended at
\* its write, and once both have completed, the store is empty, StreakData
\* is {0, 0, ''} and the snapshot in storage is the empty one.
C30_ResetWins ==
    ResetOvertookUpdate
    => /\ dailyStats = EmptyStore
       /\ streakData = ZeroStreak
       /\ storage = SaveSnapshot(EmptyStore)

====
